---- MODULE Spec2Model ----
(***************************************************************************)
(* Client-side session layer of the SecureOps dashboard: the axios gateway *)
(* (api.js: in-memory access token, request interceptor, 401 response      *)
(* interceptor with refresh-and-retry) and the AuthProvider (initAuth,     *)
(* login, logout).  Every asynchronous function is a task; a task is       *)
(* suspended at the network call it awaits, and one action is one run of   *)
(* the code between two suspensions.  The Upload component (validation,    *)
(* submission, status polling) is modelled after the session layer.        *)
(***************************************************************************)
EXTENDS Naturals, Sequences, FiniteSets, Bags, TLC

\* Number of gateway requests (getSummary, getViolations, ...) that may be
\* outstanding together.
NReq == 2

\* let _accessToken = null: the absent token.  Tokens minted by the server
\* are 1, 2, ... in the order the server issues them.
Null == 0

VARIABLES
    accessToken,      \* api.js  _accessToken
    user,             \* AuthProvider  user            (Null or Profile)
    isAuthenticated,  \* AuthProvider  isAuthenticated (null / true / false)
    loading,          \* AuthProvider  loading
    task,             \* per task: where it is suspended and the call it awaits
    issued,           \* server: the last access token it minted
    quiet,            \* history: no other task has run since login() began
    \* Upload component (Upload.jsx state, see the Upload section)
    selectedType,     \* 'image' | 'pdf' | 'video' | null
    files,            \* the selected files
    status,           \* IDLE, UPLOADING, PROCESSING, COMPLETED, FAILED
    uploadId,         \* job id returned by the upload call, or null
    error,            \* message shown to the user, or null
    interval,         \* the polling effect holds a running setInterval timer
    up,               \* the upload call of handleUpload
    polls,            \* the status fetches of timer ticks in flight (a bag)
    jobs,             \* server: status of each job
    uploadCalls,      \* history: number of upload calls issued
    mounted,          \* the Upload component is mounted
    lastTick,         \* history: how the tick ended that settled in the last
                      \* step
    signals,          \* history: onUploadComplete was called with the job id
    backWhileBusy,    \* history: the last step was handleBack while UPLOADING
                      \* or PROCESSING
    selected,         \* handleFileSelect: Array.from(e.target.files)
    err               \* handleFileSelect: what validateFiles returned

sessionVars == <<accessToken, user, isAuthenticated, loading, task, issued, quiet>>

uploadVars ==
    <<selectedType, files, status, uploadId, error, interval, up, polls, jobs,
      uploadCalls, mounted, lastTick, signals, backWhileBusy, selected, err>>

vars == <<sessionVars, uploadVars>>

\* isAuthenticated: null = checking, true, false
Checking        == "Checking"
Authenticated   == "Authenticated"
Unauthenticated == "Unauthenticated"

\* Profile record returned by GET /auth/me (1 = some profile).
Profile == 1

Boot   == <<"boot", 0>>
Login  == <<"login", 0>>
Logout == <<"logout", 0>>
Signup == <<"signup", 0>>
Req(i) == <<"req", i>>

Requests == {Req(i) : i \in 1..NReq}
Tasks    == {Boot, Login, Logout, Signup} \cup Requests

\* A task record.
\*   pc      "init", "done", or the call the task awaits:
\*           "refresh" (POST /auth/refresh), "login" (POST /auth/login),
\*           "logout" (POST /auth/logout), "me" (GET /auth/me),
\*           "data" (any protected call)
\*   phase   of the awaited call: "sent" (on the wire), "minted" (the server
\*           answered 200 with a new access_token, answer on the wire),
\*           "rsent" / "rminted": the same for the interceptor's own
\*           POST /auth/refresh, awaited on behalf of the original request
\*   retry   originalRequest._retry
\*   bearer  Authorization header of the last send of the original request
\*   tok     data.access_token of the answer on the wire
\*   sends   how many times the original request was sent
\*   refs    how many refresh calls the interceptor issued for it
\*   result  how the task's last awaited call settled: "ok", or the error
\*           the caller got: "401", "err" (other 4xx/5xx), "net" (no
\*           response: network error or the 30 s timeout)
\*   thrown  the task's function rejected to its caller
IdleTask ==
    [pc |-> "init", phase |-> "none", retry |-> FALSE, bearer |-> Null,
     tok |-> Null, sends |-> 0, refs |-> 0, result |-> "none", thrown |-> FALSE]

\* SessionInit with a token kept from before the page load.
SessionInitPersistedToken ==
    /\ accessToken = 1
    /\ user = Null
    /\ isAuthenticated = Checking
    /\ loading = TRUE
    /\ task = [t \in Tasks |-> IdleTask]
    /\ issued = 1
    /\ quiet = FALSE

SessionInit ==
    /\ accessToken = Null
    /\ user = Null
    /\ isAuthenticated = Checking
    /\ loading = TRUE
    /\ task = [t \in Tasks |-> IdleTask]
    /\ issued = 0
    /\ quiet = FALSE

\* Upload component: state.

\* Status fetches that can be in flight together (a tick fires every 2 s and
\* a fetch may take up to the 30 s timeout).
NPoll == 2

\* Upload calls issued in one behaviour.
MaxUploads == 2

\* JavaScript null for a string-valued state (selectedType, error).
None == "null"

Categories == {"image", "pdf", "video"}

JobIds == 1..MaxUploads

\* One upload call: the FormData it carries, the video_id the server returned.
IdleCall ==
    [phase |-> "none", files |-> <<>>, type |-> None, video_id |-> Null]

\* One status fetch of a timer tick: the job id in the tick's closure and,
\* once the server has answered, the status in the response.
PollFetches ==
    [phase : {"sent", "answered"}, id : JobIds,
     data : {"none", "pending", "processing", "completed", "failed"}]

UploadInit ==
    /\ selectedType = None
    /\ files = <<>>
    /\ status = "IDLE"
    /\ uploadId = Null
    /\ error = None
    /\ interval = FALSE
    /\ up = [k \in 1..MaxUploads |-> IdleCall]
    /\ polls = EmptyBag
    /\ jobs = [j \in JobIds |-> "none"]
    /\ uploadCalls = 0
    /\ mounted = TRUE
    /\ lastTick = "none"
    /\ signals = [j \in JobIds |-> FALSE]
    /\ backWhileBusy = FALSE

\* A local that has not been assigned.
Undefined == "undefined"

Init ==
    /\ SessionInit
    /\ UploadInit
    /\ selected = <<>>
    /\ err = Undefined

----------------------------------------------------------------------------
\* api.js

\* RequestInterceptor without the header assignment.
RequestInterceptorNoHeader(tk, hdr) == hdr

\* Request interceptor: the Authorization header a request leaves with, given
\* the token held (tk) and the header the config already carries (hdr).
RequestInterceptor(tk, hdr) == IF tk # Null THEN tk ELSE hdr

\* Send without the request interceptor.
SendNoInterceptor(t, u, tk) ==
    [task[t] EXCEPT !.pc = u, !.phase = "sent", !.retry = FALSE,
                    !.bearer = Null, !.tok = Null,
                    !.sends = 1, !.refs = 0, !.result = "none",
                    !.thrown = FALSE]

\* api.post / api.get of a new request for call u by task t, while the token
\* held is tk.
Send(t, u, tk) ==
    [task[t] EXCEPT !.pc = u, !.phase = "sent", !.retry = FALSE,
                    !.bearer = RequestInterceptor(tk, Null), !.tok = Null,
                    !.sends = 1, !.refs = 0, !.result = "none",
                    !.thrown = FALSE]

\* IsAuthUrl without the test of "/auth/login".
IsAuthUrlRefreshOnly(u) == u = "refresh"

\* The urls the interceptor never refreshes for.
IsAuthUrl(u) == u \in {"refresh", "login"}

\* The calls whose 200 answer carries a new access_token.
Minting == {"refresh", "login"}

\* Tracks whether login() ran alone: a step of another task clears it.
Disturb(t) == quiet' = (quiet /\ t = Login)

\* The server answers 200 to POST /auth/login or POST /auth/refresh and mints
\* the next access token; the answer is then on the wire.
ServerMint(t) ==
    /\ \/ task[t].phase = "sent" /\ task[t].pc \in Minting
       \/ task[t].phase = "rsent"
    /\ issued' = issued + 1
    /\ task' = [task EXCEPT ![t].tok = issued + 1,
                            ![t].phase = IF task[t].phase = "sent"
                                         THEN "minted" ELSE "rminted"]
    /\ Disturb(t)
    /\ UNCHANGED <<accessToken, user, isAuthenticated, loading>>
    /\ UNCHANGED uploadVars

\* WantsRefresh without the test of originalRequest._retry.
WantsRefreshNoRetryFlag(c) ==
    /\ c.phase = "sent"
    /\ ~IsAuthUrl(c.pc)

\* Response interceptor, 401 branch: the request is marked and the
\* interceptor posts its own /auth/refresh.
WantsRefresh(c) ==
    /\ c.phase = "sent"
    /\ ~c.retry
    /\ ~IsAuthUrl(c.pc)

On401(t) ==
    /\ WantsRefresh(task[t])
    /\ task' = [task EXCEPT ![t].retry = TRUE, ![t].phase = "rsent",
                            ![t].refs = task[t].refs + 1]
    /\ Disturb(t)
    /\ UNCHANGED <<accessToken, user, isAuthenticated, loading, issued>>
    /\ UNCHANGED uploadVars

\* RefreshOk without setAccessToken: the re-send leaves with the new header
\* unless the interceptor overwrites it with the token still held.
RefreshOkTokenNotStored(t) ==
    /\ task[t].phase = "rminted"
    /\ accessToken' = accessToken
    /\ task' = [task EXCEPT ![t].phase = "sent",
                            ![t].bearer = RequestInterceptor(accessToken, task[t].tok),
                            ![t].tok = Null,
                            ![t].sends = task[t].sends + 1]
    /\ Disturb(t)
    /\ UNCHANGED <<user, isAuthenticated, loading, issued>>
    /\ UNCHANGED uploadVars

\* Response interceptor, the refresh succeeded: the new token is stored and
\* the original request is sent again with it.
RefreshOk(t) ==
    /\ task[t].phase = "rminted"
    /\ accessToken' = task[t].tok
    /\ task' = [task EXCEPT ![t].phase = "sent",
                            ![t].bearer = RequestInterceptor(task[t].tok, task[t].tok),
                            ![t].tok = Null,
                            ![t].sends = task[t].sends + 1]
    /\ Disturb(t)
    /\ UNCHANGED <<user, isAuthenticated, loading, issued>>
    /\ UNCHANGED uploadVars

\* The results with which the call that task t awaits can settle now, i.e.
\* what the interceptor chain hands to the awaiting function.
Outcomes(t) ==
    LET c == task[t] IN
    IF c.phase = "sent"
    THEN (IF c.pc \in Minting THEN {} ELSE {"ok"})
         \cup (IF WantsRefresh(c) THEN {} ELSE {"401"})
         \cup {"err", "net"}
    ELSE IF c.phase = "minted" THEN {"ok"}
    ELSE IF c.phase = "rsent" THEN {"401", "err", "net"}
    ELSE {}

\* TokenAfterInterceptor that clears the token on every rejection path.
TokenAfterInterceptorCleared(t) == Null

\* TokenAfterInterceptor with a catch that leaves the token in place.
TokenAfterInterceptorKept(t) == accessToken

\* TokenAfterInterceptor that also clears the token when the re-sent request
\* fails.
TokenAfterInterceptorClearedOnRetry(t) ==
    IF task[t].phase = "rsent" \/ task[t].retry THEN Null ELSE accessToken

\* _accessToken once the interceptor has run for the settling call: its catch
\* of a failed refresh clears the token.
TokenAfterInterceptor(t) == IF task[t].phase = "rsent" THEN Null ELSE accessToken

\* The task's function returns (or throws) after a call settled with r.
Finish(t, r, thr) ==
    [task[t] EXCEPT !.pc = "done", !.phase = "none", !.tok = Null,
                    !.bearer = Null, !.result = r, !.thrown = thr]

\* A protected call made by a component (getSummary, getViolations, ...).
RequestStart(t) ==
    /\ task[t].pc = "init"
    /\ task' = [task EXCEPT ![t] = Send(t, "data", accessToken)]
    /\ Disturb(t)
    /\ UNCHANGED <<accessToken, user, isAuthenticated, loading, issued>>
    /\ UNCHANGED uploadVars

RequestSettled(t) ==
    /\ task[t].pc = "data"
    /\ \E r \in Outcomes(t) :
          /\ accessToken' = TokenAfterInterceptor(t)
          /\ task' = [task EXCEPT ![t] = Finish(t, r, r # "ok")]
    /\ Disturb(t)
    /\ UNCHANGED <<user, isAuthenticated, loading, issued>>
    /\ UNCHANGED uploadVars

----------------------------------------------------------------------------
\* AuthContext.jsx

\* initAuth: await SafetyAPI.refreshToken()
initAuth ==
    /\ task[Boot].pc = "init"
    /\ task' = [task EXCEPT ![Boot] = Send(Boot, "refresh", accessToken)]
    /\ Disturb(Boot)
    /\ UNCHANGED <<accessToken, user, isAuthenticated, loading, issued>>
    /\ UNCHANGED uploadVars

\* initAuthCatch without the finally block.
initAuthCatchNoFinally(r) ==
    /\ isAuthenticated' = Unauthenticated
    /\ user' = Null
    /\ accessToken' = Null
    /\ loading' = loading
    /\ task' = [task EXCEPT ![Boot] = Finish(Boot, r, FALSE)]

\* initAuthCatch without setIsAuthenticated(false).
initAuthCatchKeepsState(r) ==
    /\ isAuthenticated' = isAuthenticated
    /\ user' = Null
    /\ accessToken' = Null
    /\ loading' = FALSE
    /\ task' = [task EXCEPT ![Boot] = Finish(Boot, r, FALSE)]

\* initAuth: catch and finally
initAuthCatch(r) ==
    /\ isAuthenticated' = Unauthenticated
    /\ user' = Null
    /\ accessToken' = Null
    /\ loading' = FALSE
    /\ task' = [task EXCEPT ![Boot] = Finish(Boot, r, FALSE)]

\* the refresh call of initAuth settled
initAuthAfterRefresh ==
    /\ task[Boot].pc = "refresh"
    /\ \E r \in Outcomes(Boot) :
          IF r = "ok"
          THEN /\ accessToken' = task[Boot].tok
               /\ task' = [task EXCEPT ![Boot] = Send(Boot, "me", task[Boot].tok)]
               /\ UNCHANGED <<user, isAuthenticated, loading>>
          ELSE initAuthCatch(r)
    /\ Disturb(Boot)
    /\ UNCHANGED issued
    /\ UNCHANGED uploadVars

\* the profile call of initAuth settled
initAuthAfterGetMe ==
    /\ task[Boot].pc = "me"
    /\ \E r \in Outcomes(Boot) :
          IF r = "ok"
          THEN /\ user' = Profile
               /\ isAuthenticated' = Authenticated
               /\ loading' = FALSE
               /\ accessToken' = TokenAfterInterceptor(Boot)
               /\ task' = [task EXCEPT ![Boot] = Finish(Boot, r, FALSE)]
          ELSE initAuthCatch(r)
    /\ Disturb(Boot)
    /\ UNCHANGED issued
    /\ UNCHANGED uploadVars

\* login: await SafetyAPI.login(email, password)
login ==
    /\ task[Login].pc = "init"
    /\ task' = [task EXCEPT ![Login] = Send(Login, "login", accessToken)]
    /\ quiet' = \A t \in Tasks \ {Login} : task[t].pc \in {"init", "done"}
    /\ UNCHANGED <<accessToken, user, isAuthenticated, loading, issued>>
    /\ UNCHANGED uploadVars

\* loginCatch that only rethrows.
loginCatchRethrowOnly(r) ==
    /\ isAuthenticated' = isAuthenticated
    /\ accessToken' = TokenAfterInterceptor(Login)
    /\ task' = [task EXCEPT ![Login] = Finish(Login, r, TRUE)]
    /\ UNCHANGED user

\* login: catch
loginCatch(r) ==
    /\ isAuthenticated' = Unauthenticated
    /\ accessToken' = TokenAfterInterceptor(Login)
    /\ task' = [task EXCEPT ![Login] = Finish(Login, r, TRUE)]
    /\ UNCHANGED user

\* the login call settled
loginAfterLogin ==
    /\ task[Login].pc = "login"
    /\ \E r \in Outcomes(Login) :
          IF r = "ok"
          THEN /\ accessToken' = task[Login].tok
               /\ task' = [task EXCEPT ![Login] = Send(Login, "me", task[Login].tok)]
               /\ UNCHANGED <<user, isAuthenticated>>
          ELSE loginCatch(r)
    /\ Disturb(Login)
    /\ UNCHANGED <<loading, issued>>
    /\ UNCHANGED uploadVars

\* the profile call of login settled
loginAfterGetMe ==
    /\ task[Login].pc = "me"
    /\ \E r \in Outcomes(Login) :
          IF r = "ok"
          THEN /\ user' = Profile
               /\ isAuthenticated' = Authenticated
               /\ accessToken' = TokenAfterInterceptor(Login)
               /\ task' = [task EXCEPT ![Login] = Finish(Login, r, FALSE)]
          ELSE loginCatch(r)
    /\ Disturb(Login)
    /\ UNCHANGED <<loading, issued>>
    /\ UNCHANGED uploadVars

\* logout: await SafetyAPI.logout()
logout ==
    /\ task[Logout].pc = "init"
    /\ task' = [task EXCEPT ![Logout] = Send(Logout, "logout", accessToken)]
    /\ Disturb(Logout)
    /\ UNCHANGED <<accessToken, user, isAuthenticated, loading, issued>>
    /\ UNCHANGED uploadVars

\* logoutAfterLogout without the try/catch around SafetyAPI.logout().
logoutAfterLogoutNoCatch ==
    /\ task[Logout].pc = "logout"
    /\ \E r \in Outcomes(Logout) :
          IF r = "ok"
          THEN /\ accessToken' = Null
               /\ user' = Null
               /\ isAuthenticated' = Unauthenticated
               /\ task' = [task EXCEPT ![Logout] = Finish(Logout, r, FALSE)]
          ELSE /\ accessToken' = TokenAfterInterceptor(Logout)
               /\ task' = [task EXCEPT ![Logout] = Finish(Logout, r, TRUE)]
               /\ UNCHANGED <<user, isAuthenticated>>
    /\ Disturb(Logout)
    /\ UNCHANGED <<loading, issued>>
    /\ UNCHANGED uploadVars

\* logoutAfterLogout that puts the session back to "checking" (null).
logoutAfterLogoutToChecking ==
    /\ task[Logout].pc = "logout"
    /\ \E r \in Outcomes(Logout) :
          /\ accessToken' = Null
          /\ user' = Null
          /\ isAuthenticated' = Checking
          /\ task' = [task EXCEPT ![Logout] = Finish(Logout, r, FALSE)]
    /\ Disturb(Logout)
    /\ UNCHANGED <<loading, issued>>
    /\ UNCHANGED uploadVars

\* the logout call settled: SafetyAPI.logout clears the token on success, the
\* catch logs a failure, and logout clears the session either way.
logoutAfterLogout ==
    /\ task[Logout].pc = "logout"
    /\ \E r \in Outcomes(Logout) :
          /\ accessToken' = Null
          /\ user' = Null
          /\ isAuthenticated' = Unauthenticated
          /\ task' = [task EXCEPT ![Logout] = Finish(Logout, r, FALSE)]
    /\ Disturb(Logout)
    /\ UNCHANGED <<loading, issued>>
    /\ UNCHANGED uploadVars

\* signup: await SafetyAPI.signup(email, password, role)
signup ==
    /\ task[Signup].pc = "init"
    /\ task' = [task EXCEPT ![Signup] = Send(Signup, "signup", accessToken)]
    /\ Disturb(Signup)
    /\ UNCHANGED <<accessToken, user, isAuthenticated, loading, issued>>
    /\ UNCHANGED uploadVars

\* signupAfterSignup that logs the new account in.
signupAfterSignupAutoLogin ==
    /\ task[Signup].pc = "signup"
    /\ \E r \in Outcomes(Signup) :
          /\ accessToken' = TokenAfterInterceptor(Signup)
          /\ isAuthenticated' = IF r = "ok" THEN Authenticated
                                 ELSE isAuthenticated
          /\ task' = [task EXCEPT ![Signup] = Finish(Signup, r, r # "ok")]
    /\ Disturb(Signup)
    /\ UNCHANGED <<user, loading, issued>>
    /\ UNCHANGED uploadVars

\* the signup call settled: signup returns the data or lets the error through
signupAfterSignup ==
    /\ task[Signup].pc = "signup"
    /\ \E r \in Outcomes(Signup) :
          /\ accessToken' = TokenAfterInterceptor(Signup)
          /\ task' = [task EXCEPT ![Signup] = Finish(Signup, r, r # "ok")]
    /\ Disturb(Signup)
    /\ UNCHANGED <<user, isAuthenticated, loading, issued>>
    /\ UNCHANGED uploadVars

----------------------------------------------------------------------------
\* Upload.jsx: validation

\* A File is [name, size, type]; size in bytes; type is the MIME string as
\* its sequence of tokens, so that startsWith is a test on a prefix.
MB == 1024 * 1024

LIMITS ==
    [image |-> [size |-> 10, mime |-> <<"image", "/">>],
     pdf   |-> [size |-> 50, mime |-> <<"application", "/", "pdf">>],
     video |-> [size |-> 100, mime |-> <<"video", "/">>]]

\* String.prototype.startsWith
startsWith(str, prefix) ==
    /\ Len(str) >= Len(prefix)
    /\ SubSeq(str, 1, Len(prefix)) = prefix

\* The template literal `File size exceeds ${rule.size}MB limit`
SizeMessage(type) ==
    CASE type = "image" -> "File size exceeds 10MB limit"
      [] type = "pdf"   -> "File size exceeds 50MB limit"
      [] type = "video" -> "File size exceeds 100MB limit"

\* validateFiles with >= in the size check.
validateFilesLimitExcluded(sel, type) ==
    IF type \notin DOMAIN LIMITS THEN "Unknown type"
    ELSE IF Len(sel) > 1 THEN "Please select only one file"
    ELSE LET rule == LIMITS[type]
             file == sel[1]
         IN  IF file.size >= rule.size * 1024 * 1024 THEN SizeMessage(type)
             ELSE IF type = "pdf" /\ file.type # <<"application", "/", "pdf">>
                  THEN "Invalid PDF file"
             ELSE IF type = "image" /\ ~startsWith(file.type, <<"image", "/">>)
                  THEN "Invalid image file"
             ELSE IF type = "video" /\ ~startsWith(file.type, <<"video", "/">>)
                  THEN "Invalid video file"
             ELSE None

\* validateFiles(selected, type): the message, or null. Called with at
\* least one file (handleFileSelect returns on an empty selection).
validateFiles(sel, type) ==
    IF type \notin DOMAIN LIMITS THEN "Unknown type"
    ELSE IF Len(sel) > 1 THEN "Please select only one file"
    ELSE LET rule == LIMITS[type]
             file == sel[1]
         IN  IF file.size > rule.size * 1024 * 1024 THEN SizeMessage(type)
             ELSE IF type = "pdf" /\ file.type # <<"application", "/", "pdf">>
                  THEN "Invalid PDF file"
             ELSE IF type = "image" /\ ~startsWith(file.type, <<"image", "/">>)
                  THEN "Invalid image file"
             ELSE IF type = "video" /\ ~startsWith(file.type, <<"video", "/">>)
                  THEN "Invalid video file"
             ELSE None

\* The files validateFiles is checked on: sizes at and next to each limit,
\* MIME types that match, nearly match and do not match, names whose
\* extension agrees or disagrees with the type.
Sizes == {0} \cup UNION {{LIMITS[c].size * MB, LIMITS[c].size * MB + 1} :
                           c \in DOMAIN LIMITS}

MimeTypes ==
    {<<>>, <<"image">>, <<"image", "/">>, <<"image", "/", "png">>,
     <<"video", "/", "mp4">>, <<"application", "/", "pdf">>,
     <<"application", "/", "pdf", "x">>, <<"text", "/", "plain">>}

Names == {"a.png", "a.pdf", "a.exe"}

Files == [name : Names, size : Sizes, type : MimeTypes]

\* A few files for the selections of two.
PairFiles ==
    {f \in Files : f.name = "a.png" /\ f.size = 0
                   /\ f.type \in {<<"image", "/", "png">>,
                                  <<"application", "/", "pdf">>}}

Selections ==
    {<<f>> : f \in Files} \cup {<<f, g>> : f \in PairFiles, g \in PairFiles}

\* handleFileSelect up to its call of validateFiles, for any selection made
\* under any category.
ValidateInit ==
    /\ SessionInit
    /\ selectedType \in Categories
    /\ files = <<>>
    /\ status = "IDLE"
    /\ uploadId = Null
    /\ error = None
    /\ interval = FALSE
    /\ up = [k \in 1..MaxUploads |-> IdleCall]
    /\ polls = EmptyBag
    /\ jobs = [j \in JobIds |-> "none"]
    /\ uploadCalls = 0
    /\ mounted = TRUE
    /\ lastTick = "none"
    /\ signals = [j \in JobIds |-> FALSE]
    /\ backWhileBusy = FALSE
    /\ selected \in Selections
    /\ err = Undefined

\* const err = validateFiles(selected, selectedType)
validate ==
    /\ err = Undefined
    /\ err' = validateFiles(selected, selectedType)
    /\ UNCHANGED <<sessionVars, selectedType, files, status, uploadId, error,
                   interval, up, polls, jobs, uploadCalls, mounted, lastTick,
                   signals, backWhileBusy, selected>>

ValidateSpec == ValidateInit /\ [][validate]_vars

----------------------------------------------------------------------------
\* Upload.jsx: the workflow

\* What the user picks in the file dialog (the input takes one file): a
\* valid file of each category and an image one byte over its limit.
PickFiles ==
    {[name |-> "a.png", size |-> LIMITS["image"].size * MB,
      type |-> <<"image", "/", "png">>],
     [name |-> "a.png", size |-> LIMITS["image"].size * MB + 1,
      type |-> <<"image", "/", "png">>],
     [name |-> "a.pdf", size |-> 0, type |-> <<"application", "/", "pdf">>],
     [name |-> "a.exe", size |-> 0, type |-> <<"video", "/", "mp4">>]}

Picks == {<<f>> : f \in PickFiles}

\* The body of the polling effect: it creates a timer unless it returns early.
PollEffect(uid, st) == uid # Null /\ st # "FAILED"

\* The render that follows a handler which left the job id uid and the
\* status st: the polling effect runs again (cleanup, then body) when
\* uploadId, status or onUploadComplete changed.
Commit(uid, st, propChanged) ==
    interval' = IF propChanged \/ uid # uploadId \/ st # status
                THEN PollEffect(uid, st)
                ELSE interval

\* handleTypeSelect without setStatus("IDLE") and setError(null).
handleTypeSelectKeepsStatus(type) ==
    /\ mounted
    /\ selectedType = None
    /\ selectedType' = type
    /\ files' = <<>>
    /\ status' = status
    /\ error' = error
    /\ uploadId' = Null
    /\ Commit(Null, status, FALSE)
    /\ UNCHANGED <<up, polls, jobs, uploadCalls, selected, err, mounted, signals, sessionVars>>
    /\ lastTick' = "none"
    /\ backWhileBusy' = FALSE

\* A category card is clicked (the cards show while no category is selected).
handleTypeSelect(type) ==
    /\ mounted
    /\ selectedType = None
    /\ selectedType' = type
    /\ files' = <<>>
    /\ status' = "IDLE"
    /\ error' = None
    /\ uploadId' = Null
    /\ Commit(Null, "IDLE", FALSE)
    /\ UNCHANGED <<up, polls, jobs, uploadCalls, selected, err, mounted, signals, sessionVars>>
    /\ lastTick' = "none"
    /\ backWhileBusy' = FALSE

\* handleBack with its early return removed.
handleBackNoGuard ==
    /\ mounted
    /\ selectedType # None
    /\ backWhileBusy' = (status \in {"UPLOADING", "PROCESSING"})
    /\ selectedType' = None
    /\ files' = <<>>
    /\ status' = "IDLE"
    /\ error' = None
    /\ uploadId' = Null
    /\ Commit(Null, "IDLE", FALSE)
    /\ UNCHANGED <<up, polls, jobs, uploadCalls, selected, err, mounted,
                   signals, sessionVars>>
    /\ lastTick' = "none"

\* The back arrow of the upload view: the handler returns early while
\* UPLOADING or PROCESSING.
handleBack ==
    /\ mounted
    /\ selectedType # None
    /\ IF status = "UPLOADING" \/ status = "PROCESSING"
       THEN /\ backWhileBusy' = TRUE
            /\ UNCHANGED <<selectedType, files, status, error, uploadId,
                           interval>>
       ELSE /\ selectedType' = None
            /\ files' = <<>>
            /\ status' = "IDLE"
            /\ error' = None
            /\ uploadId' = Null
            /\ Commit(Null, "IDLE", FALSE)
            /\ backWhileBusy' = FALSE
    /\ UNCHANGED <<up, polls, jobs, uploadCalls, selected, err, mounted,
                   signals, sessionVars>>
    /\ lastTick' = "none"

\* handleFileSelect that stores the selection before it is validated.
handleFileSelectNoCheck(sel) ==
    /\ mounted
    /\ selectedType # None
    /\ status = "IDLE"
    /\ Len(sel) # 0
    /\ LET e == validateFiles(sel, selectedType) IN
          /\ error' = e
          /\ files' = sel
    /\ UNCHANGED <<selectedType, status, uploadId, interval, up, polls, jobs,
                   uploadCalls, selected, err, mounted, signals, sessionVars>>
    /\ lastTick' = "none"
    /\ backWhileBusy' = FALSE

\* The file input changes (it shows while a category is selected and the
\* status is IDLE or UPLOADING, and is disabled while UPLOADING).
handleFileSelect(sel) ==
    /\ mounted
    /\ selectedType # None
    /\ status = "IDLE"
    /\ Len(sel) # 0
    /\ LET e == validateFiles(sel, selectedType) IN
          IF e # None
          THEN /\ error' = e
               /\ UNCHANGED files
          ELSE /\ error' = None
               /\ files' = sel
    /\ UNCHANGED <<selectedType, status, uploadId, interval, up, polls, jobs,
                   uploadCalls, selected, err, mounted, signals, sessionVars>>
    /\ lastTick' = "none"
    /\ backWhileBusy' = FALSE

\* The upload button is clicked (enabled while files are selected and the
\* status is IDLE): handleUpload up to its await of SafetyAPI.upload.
handleUpload ==
    /\ mounted
    /\ status = "IDLE"
    /\ ~(Len(files) = 0 \/ selectedType = None)
    /\ uploadCalls < MaxUploads
    /\ status' = "UPLOADING"
    /\ error' = None
    /\ uploadCalls' = uploadCalls + 1
    /\ up' = [up EXCEPT ![uploadCalls + 1] =
                 [phase |-> "sent", files |-> files, type |-> selectedType,
                  video_id |-> Null]]
    /\ Commit(uploadId, "UPLOADING", FALSE)
    /\ UNCHANGED <<selectedType, files, uploadId, polls, jobs, selected, err,
                   mounted, signals, sessionVars>>
    /\ lastTick' = "none"
    /\ backWhileBusy' = FALSE

\* The server stores the upload as job k and answers with its video_id.
ServerUpload(k) ==
    /\ up[k].phase = "sent"
    /\ up' = [up EXCEPT ![k].phase = "answered", ![k].video_id = k]
    /\ jobs' = [jobs EXCEPT ![k] = "pending"]
    /\ UNCHANGED <<selectedType, files, status, uploadId, error, interval,
                   polls, uploadCalls, selected, err, mounted, signals, sessionVars>>
    /\ lastTick' = "none"
    /\ backWhileBusy' = FALSE

\* UploadErrorMessage with an empty message for an error without response.
UploadErrorMessageEmpty(r) ==
    IF r \in {"detail", "status"}
    THEN (IF r = "detail" THEN "Server Error: detail"
          ELSE "Server Error: status code")
    ELSE ""

\* The message handleUpload's catch builds: r tells whether the error has a
\* response with a detail, a response without one, or a message only.
UploadErrorMessage(r) ==
    IF r \in {"detail", "status"}
    THEN (IF r = "detail" THEN "Server Error: detail"
          ELSE "Server Error: status code")
    ELSE IF r = "net" THEN "Network Error"
    ELSE "Upload failed"

\* The upload call k settled: the rest of handleUpload. The setters of an
\* unmounted component change nothing.
handleUploadSettled(k) ==
    /\ up[k].phase \in {"sent", "answered"}
    /\ IF ~mounted
       THEN UNCHANGED <<uploadId, status, error, interval>>
       ELSE /\ \/ /\ up[k].phase = "answered"
                  /\ uploadId' = up[k].video_id
                  /\ status' = "PROCESSING"
                  /\ UNCHANGED error
               \/ /\ up[k].phase = "sent"
                  /\ \E r \in {"detail", "status", "net"} :
                        error' = UploadErrorMessage(r)
                  /\ status' = "FAILED"
                  /\ UNCHANGED uploadId
            /\ Commit(uploadId', status', FALSE)
    /\ up' = [up EXCEPT ![k] = [IdleCall EXCEPT !.phase = "done"]]
    /\ UNCHANGED <<selectedType, files, polls, jobs, uploadCalls, selected,
                   err, mounted, signals, sessionVars>>
    /\ lastTick' = "none"
    /\ backWhileBusy' = FALSE

\* "Try Again", shown while the status is FAILED.
TryAgain ==
    /\ mounted
    /\ selectedType # None
    /\ status = "FAILED"
    /\ status' = "IDLE"
    /\ Commit(uploadId, "IDLE", FALSE)
    /\ UNCHANGED <<selectedType, files, uploadId, error, up, polls, jobs,
                   uploadCalls, selected, err, mounted, signals, sessionVars>>
    /\ lastTick' = "none"
    /\ backWhileBusy' = FALSE

\* The timer fires: the tick awaits SafetyAPI.getStatus(uploadId).
Tick ==
    /\ interval
    /\ BagCardinality(polls) < NPoll
    /\ polls' = polls (+) SetToBag({[phase |-> "sent", id |-> uploadId,
                                     data |-> "none"]})
    /\ UNCHANGED <<selectedType, files, status, uploadId, error, interval, up,
                   jobs, uploadCalls, selected, err, mounted, signals, sessionVars>>
    /\ lastTick' = "none"
    /\ backWhileBusy' = FALSE

\* The server answers a status call with the job's status.
ServerStatus(p) ==
    /\ BagIn(p, polls)
    /\ p.phase = "sent"
    /\ polls' = (polls (-) SetToBag({p}))
                (+) SetToBag({[p EXCEPT !.phase = "answered",
                                        !.data = jobs[p.id]]})
    /\ UNCHANGED <<selectedType, files, status, uploadId, error, interval, up,
                   jobs, uploadCalls, selected, err, mounted, signals, sessionVars>>
    /\ lastTick' = "none"
    /\ backWhileBusy' = FALSE

\* The backend works on job j.
ServerProgress(j) ==
    /\ \/ jobs[j] = "pending" /\ jobs' = [jobs EXCEPT ![j] = "processing"]
       \/ /\ jobs[j] = "processing"
          /\ \E d \in {"completed", "failed"} : jobs' = [jobs EXCEPT ![j] = d]
    /\ UNCHANGED <<selectedType, files, status, uploadId, error, interval, up,
                   polls, uploadCalls, selected, err, mounted, signals, sessionVars>>
    /\ lastTick' = "none"
    /\ backWhileBusy' = FALSE

\* String.prototype.toUpperCase on the statuses of the backend.
toUpperCase(str) ==
    CASE str = "pending"    -> "PENDING"
      [] str = "processing" -> "PROCESSING"
      [] str = "completed"  -> "COMPLETED"
      [] str = "failed"     -> "FAILED"

\* if (onUploadComplete) onUploadComplete(uploadId): the call is recorded.
onUploadComplete(id) == [signals EXCEPT ![id] = TRUE]

\* PollCatch that gives the job up.
PollCatchFails ==
    /\ status' = "FAILED"
    /\ error' = "Polling error"
    /\ Commit(uploadId, "FAILED", FALSE)

\* The catch of a tick: the error is logged and nothing else.
PollCatch == UNCHANGED <<status, error, interval>>

\* PollFailed without setError.
PollFailedNoMessage ==
    /\ status' = "FAILED"
    /\ UNCHANGED error
    /\ Commit(uploadId, "FAILED", FALSE)

\* The FAILED branch of a tick.
PollFailed ==
    /\ status' = "FAILED"
    /\ error' = "Processing failed on server."
    /\ Commit(uploadId, "FAILED", FALSE)

\* The status call of a tick settled: the rest of the tick. Its
\* clearInterval stops the tick's own timer; the render that follows runs the
\* effect again whenever the status changed, and after a COMPLETED tick in
\* any case: onUploadComplete makes DashboardLayout render, which hands
\* Upload a new handleUploadComplete. The setters of an unmounted component
\* change nothing.
PollSettled(p) ==
    /\ BagIn(p, polls)
    /\ IF ~mounted
       THEN UNCHANGED <<status, error, interval>>
       ELSE \/ /\ p.phase = "sent"
               /\ PollCatch
            \/ /\ p.phase = "answered"
               /\ LET s == toUpperCase(p.data) IN
                     IF s = "PENDING" \/ s = "PROCESSING"
                     THEN /\ status' = "PROCESSING"
                          /\ UNCHANGED error
                          /\ Commit(uploadId, "PROCESSING", FALSE)
                     ELSE IF s = "COMPLETED"
                     THEN /\ status' = "COMPLETED"
                          /\ UNCHANGED error
                          /\ Commit(uploadId, "COMPLETED", TRUE)
                     ELSE PollFailed
    /\ polls' = polls (-) SetToBag({p})
    /\ lastTick' = IF p.phase = "sent" THEN "error" ELSE toUpperCase(p.data)
    /\ signals' = IF p.phase = "answered" /\ toUpperCase(p.data) = "COMPLETED"
                  THEN onUploadComplete(p.id)
                  ELSE signals
    /\ UNCHANGED <<selectedType, files, uploadId, up, jobs, uploadCalls,
                   selected, err, mounted, sessionVars>>
    /\ backWhileBusy' = FALSE

\* Unmount whose cleanup also puts the status back to IDLE.
UnmountResetsStatus ==
    /\ mounted
    /\ mounted' = FALSE
    /\ interval' = FALSE
    /\ status' = "IDLE"
    /\ UNCHANGED <<selectedType, files, uploadId, error, up, polls,
                   jobs, uploadCalls, signals, selected, err, sessionVars>>
    /\ lastTick' = "none"
    /\ backWhileBusy' = FALSE

\* DashboardLayout is unmounted (logout makes ProtectedRoute redirect, or the
\* user leaves the dashboard): the cleanup of the polling effect runs.
Unmount ==
    /\ mounted
    /\ mounted' = FALSE
    /\ interval' = FALSE
    /\ UNCHANGED <<selectedType, files, status, uploadId, error, up, polls,
                   jobs, uploadCalls, signals, selected, err, sessionVars>>
    /\ lastTick' = "none"
    /\ backWhileBusy' = FALSE

UploadNext ==
    \/ \E type \in Categories : handleTypeSelect(type)
    \/ handleBack
    \/ \E sel \in Picks : handleFileSelect(sel)
    \/ handleUpload
    \/ \E k \in 1..MaxUploads : handleUploadSettled(k)
    \/ TryAgain
    \/ Tick
    \/ \E p \in PollFetches : PollSettled(p)
    \/ \E k \in 1..MaxUploads : ServerUpload(k)
    \/ \E p \in PollFetches : ServerStatus(p)
    \/ \E j \in JobIds : ServerProgress(j)
    \/ Unmount

UploadSpec == Init /\ [][UploadNext]_vars

\* The timer fires every 2 s while it runs; a status fetch that keeps being
\* tried is answered in the end, and the answer reaches its tick.
FairUploadSpec ==
    /\ UploadSpec
    /\ WF_vars(Tick)
    /\ \A j \in JobIds :
          SF_vars(ServerStatus([phase |-> "sent", id |-> j, data |-> "none"]))
    /\ \A p \in PollFetches : WF_vars(p.phase = "answered" /\ PollSettled(p))

----------------------------------------------------------------------------
\* The session controller: bootstrap, login and logout in any interleaving.
SessionTasks == {Boot, Login, Logout}

Next ==
    \/ initAuth
    \/ initAuthAfterRefresh
    \/ initAuthAfterGetMe
    \/ login
    \/ loginAfterLogin
    \/ loginAfterGetMe
    \/ logout
    \/ logoutAfterLogout
    \/ \E t \in SessionTasks : ServerMint(t)
    \/ \E t \in SessionTasks : On401(t)
    \/ \E t \in SessionTasks : RefreshOk(t)

Spec == Init /\ [][Next]_vars

\* Every call settles (a response, a network error or the 30 s timeout) and
\* the event loop then runs the continuation; the mount effect runs initAuth.
FairSpec ==
    /\ Spec
    /\ WF_vars(initAuth)
    /\ WF_vars(initAuthAfterRefresh)
    /\ WF_vars(initAuthAfterGetMe)
    /\ WF_vars(RefreshOk(Boot))

\* Gateway requests alone, NReq of them outstanding together.
GatewayNext ==
    \/ \E t \in Requests : RequestStart(t)
    \/ \E t \in Requests : RequestSettled(t)
    \/ \E t \in Requests : ServerMint(t)
    \/ \E t \in Requests : On401(t)
    \/ \E t \in Requests : RefreshOk(t)

GatewaySpec == Init /\ [][GatewayNext]_vars

\* The session controller together with one gateway request.
AppNext ==
    \/ Next
    \/ RequestStart(Req(1))
    \/ RequestSettled(Req(1))
    \/ ServerMint(Req(1))
    \/ On401(Req(1))
    \/ RefreshOk(Req(1))

AppSpec == Init /\ [][AppNext]_vars

\* Account creation next to a bootstrap and a login.
SignupTasks == {Boot, Login, Signup}

SignupNext ==
    \/ initAuth
    \/ initAuthAfterRefresh
    \/ initAuthAfterGetMe
    \/ login
    \/ loginAfterLogin
    \/ loginAfterGetMe
    \/ signup
    \/ signupAfterSignup
    \/ \E t \in SignupTasks : ServerMint(t)
    \/ \E t \in SignupTasks : On401(t)
    \/ \E t \in SignupTasks : RefreshOk(t)

SignupSpec == Init /\ [][SignupNext]_vars

----------------------------------------------------------------------------
\* Properties

\* Task t awaits the POST /auth/refresh its 401 made the interceptor issue.
AwaitsRefresh(t) == task[t].phase \in {"rsent", "rminted"}

\* Task t awaits a POST /auth/refresh of its own (SafetyAPI.refreshToken).
AwaitsOwnRefresh(t) ==
    task[t].pc = "refresh" /\ task[t].phase \in {"sent", "minted"}

\* The step settles the call task t awaits and ends t's function.
Settles(t) == task[t].pc \notin {"init", "done"} /\ task'[t].pc = "done"

\* The step is the failure of a refresh call awaited by t.
RefreshFails(t) ==
    /\ Settles(t)
    /\ \/ task[t].phase = "rsent"
       \/ task[t].pc = "refresh" /\ task[t].phase = "sent"

RECURSIVE SumRefs(_)
SumRefs(S) ==
    IF S = {} THEN 0
    ELSE LET t == CHOOSE x \in S : TRUE IN task[t].refs + SumRefs(S \ {t})

\* C1: the requests that are waiting together for a refresh after their 401s
\* have had exactly one refresh call issued for all of them.
C1_OneRefreshForConcurrent401s ==
    LET W == {t \in Requests : AwaitsRefresh(t)} IN
    W # {} => SumRefs(W) = 1

\* C2: at most one POST /auth/refresh is in flight, counting the
\* interceptor's refreshes and the one of bootstrap.
C2_AtMostOneRefreshInFlight ==
    Cardinality({t \in Tasks : AwaitsRefresh(t) \/ AwaitsOwnRefresh(t)}) <= 1

\* C3: an original request is sent at most twice and causes at most one
\* refresh; the next step of a request that was re-sent ends it without
\* another send or refresh, and a 401 it ends with is thrown to the caller.
C3_RetriedAtMostOnce ==
    [][\A t \in Requests :
          /\ task'[t].sends <= 2
          /\ task'[t].refs <= 1
          /\ (task[t].phase = "sent" /\ task[t].retry /\ task'[t] # task[t])
                => /\ task'[t].pc = "done"
                   /\ task'[t].sends = task[t].sends
                   /\ task'[t].refs = task[t].refs
                   /\ (task'[t].result = "401" => task'[t].thrown)]_vars

C3_Witness ==
    \E t \in Requests :
        /\ task[t].pc = "done"
        /\ task[t].sends = 2
        /\ task[t].refs = 1
        /\ task[t].result = "401"
        /\ task[t].thrown

\* C4: when a refresh call fails, of the interceptor or of bootstrap, the
\* token is absent after the step that handles the failure and the awaiting
\* caller got an error.
C4_RefreshFailureClearsToken ==
    [][\A t \in Tasks :
          RefreshFails(t) => (accessToken' = Null /\ task'[t].result # "ok")]_vars

C4_Witness ==
    /\ task[Login].pc = "done"
    /\ task[Login].retry
    /\ task[Login].sends = 1
    /\ task[Login].result = "401"
    /\ accessToken = Null

\* C5: when the session is Authenticated and a gateway request that drew a
\* 401 ends because its refresh failed or its re-send drew a second 401, the
\* session becomes Unauthenticated.
C5_AuthFailureEndsSession ==
    [][\A t \in Requests :
          (/\ isAuthenticated = Authenticated
           /\ Settles(t)
           /\ task[t].retry
           /\ (task[t].phase = "rsent" \/ task'[t].result = "401"))
             => isAuthenticated' = Unauthenticated]_vars

\* C6: a token that is stored is never replaced by one the server issued
\* before it.
C6_NeverOverwrittenByOlder ==
    [][(accessToken # Null /\ accessToken' # Null)
          => accessToken' >= accessToken]_vars

\* C7: when logout() returns, whatever became of POST /auth/logout, the
\* token and the profile are absent, the session is Unauthenticated and
\* nothing was thrown.
C7_LogoutAlwaysClears ==
    [][Settles(Logout) =>
          /\ accessToken' = Null
          /\ user' = Null
          /\ isAuthenticated' = Unauthenticated
          /\ ~task'[Logout].thrown]_vars

C7_Witness ==
    /\ task[Logout].pc = "done"
    /\ task[Logout].result = "net"
    /\ ~task[Logout].thrown
    /\ task[Login].pc = "done"
    /\ task[Login].result = "ok"
    /\ accessToken = Null
    /\ isAuthenticated = Unauthenticated

\* C8: login stores the access_token of the login response and then issues
\* the profile request with it as bearer; when the profile call succeeds on
\* its first send and nothing else ran meanwhile, login ends with that token
\* stored, the profile set and the session Authenticated.
C8_LoginSuccess ==
    [][/\ (task[Login].pc = "login" /\ task'[Login].pc = "me")
            => /\ accessToken' = task[Login].tok
               /\ accessToken' # Null
               /\ task'[Login].bearer = accessToken'
       /\ (/\ Settles(Login)
           /\ task[Login].pc = "me"
           /\ task'[Login].result = "ok"
           /\ ~task[Login].retry
           /\ quiet)
            => /\ accessToken' = task[Login].bearer
               /\ accessToken' # Null
               /\ user' = Profile
               /\ isAuthenticated' = Authenticated]_vars

C8_Witness ==
    /\ task[Login].pc = "done"
    /\ task[Login].result = "ok"
    /\ ~task[Login].retry
    /\ quiet
    /\ accessToken # Null
    /\ user = Profile
    /\ isAuthenticated = Authenticated

\* C9: when login fails, at the login call or at the profile call, the
\* session is Unauthenticated when it returns and the error is thrown.
C9_LoginFailure ==
    [][(Settles(Login) /\ task'[Login].result # "ok")
          => (isAuthenticated' = Unauthenticated /\ task'[Login].thrown)]_vars

C9_Witness ==
    /\ task[Login].pc = "done"
    /\ task[Login].result = "err"
    /\ task[Login].thrown
    /\ task[Boot].pc = "done"
    /\ task[Boot].result = "ok"
    /\ isAuthenticated = Unauthenticated

\* C10: bootstrap terminates: loading becomes false and stays false,
\* whatever the outcomes of the refresh call and of the profile call.
C10_BootstrapTerminates == <>[](loading = FALSE)

C10_Witness ==
    /\ task[Boot].pc = "done"
    /\ task[Boot].result = "net"
    /\ task[Boot].sends = 2
    /\ loading = FALSE

\* C11: a bootstrap whose refresh call fails ends Unauthenticated with no
\* user, no token and loading false, and throws nothing; a bootstrap whose
\* refresh and profile calls both succeed ends Authenticated with the profile.
C11_BootstrapOutcome ==
    [][Settles(Boot) =>
          /\ task[Boot].pc = "refresh" =>
                /\ isAuthenticated' = Unauthenticated
                /\ user' = Null
                /\ accessToken' = Null
                /\ loading' = FALSE
                /\ ~task'[Boot].thrown
          /\ task'[Boot].result = "ok" =>
                /\ isAuthenticated' = Authenticated
                /\ user' = Profile
                /\ loading' = FALSE]_vars

\* A cold bootstrap ended at its refresh call: no token was ever minted.
C11_Witness ==
    /\ task[Boot].pc = "done"
    /\ task[Boot].result = "401"
    /\ issued = 0
    /\ task[Login].pc = "init"
    /\ task[Logout].pc = "init"
    /\ isAuthenticated = Unauthenticated
    /\ loading = FALSE

\* C12: authState moves only from Checking to Authenticated or
\* Unauthenticated, from Authenticated to Unauthenticated by a logout or by a
\* failed refresh of a gateway retry, and from Unauthenticated to
\* Authenticated by a successful login.
C12_AuthStateMachine ==
    [][isAuthenticated' # isAuthenticated =>
          \/ /\ isAuthenticated = Checking
             /\ isAuthenticated' \in {Authenticated, Unauthenticated}
          \/ /\ isAuthenticated = Authenticated
             /\ isAuthenticated' = Unauthenticated
             /\ \/ Settles(Logout)
                \/ \E t \in Tasks : Settles(t) /\ task[t].phase = "rsent"
          \/ /\ isAuthenticated = Unauthenticated
             /\ isAuthenticated' = Authenticated
             /\ Settles(Login)
             /\ task'[Login].result = "ok"]_vars

\* C13: once authState has left Checking it is never Checking again.
C13_CheckingNeverReentered ==
    [][isAuthenticated # Checking => isAuthenticated' # Checking]_vars

\* Bootstrap, login, logout and a gateway request have all ended.
C13_Witness ==
    /\ \A t \in SessionTasks \cup {Req(1)} : task[t].pc = "done"
    /\ isAuthenticated = Authenticated

\* The step belongs to signup: it advances the signup call.
SignupStep == task'[Signup] # task[Signup]

\* C14 as stated: no step of signup changes user, authState, loading or the
\* access token.
C14_SignupChangesNothing ==
    [][SignupStep =>
          UNCHANGED <<user, isAuthenticated, loading, accessToken>>]_vars

\* C14: no step of signup changes user, authState or loading; the access
\* token changes only through the refresh the gateway makes when the signup
\* call itself drew a 401: it becomes the refreshed token, or null when that
\* refresh fails.
C14_SignupChangesNoSession ==
    [][SignupStep =>
          /\ UNCHANGED <<user, isAuthenticated, loading>>
          /\ accessToken' # accessToken =>
                \/ /\ task[Signup].phase = "rminted"
                   /\ accessToken' = task[Signup].tok
                \/ /\ task[Signup].phase = "rsent"
                   /\ accessToken' = Null]_vars

\* signup succeeded at once while a token was held.
C14_Witness ==
    /\ task[Signup].pc = "done"
    /\ task[Signup].result = "ok"
    /\ ~task[Signup].retry
    /\ accessToken # Null
    /\ isAuthenticated = Authenticated

\* C15: a login call or a refresh call is never followed by a refresh of the
\* interceptor and is sent once; its 401 goes to the caller directly.
C15_AuthCallsNeverRefreshed ==
    [][\A t \in Tasks :
          task[t].pc \in {"login", "refresh"} =>
             /\ task'[t].phase \notin {"rsent", "rminted"}
             /\ task'[t].pc = task[t].pc =>
                   task'[t].sends = 1 /\ task'[t].refs = 0 /\ ~task'[t].retry
             /\ Settles(t) /\ task'[t].result = "401" =>
                   /\ task[t].phase = "sent"
                   /\ task'[t].sends = 1
                   /\ task'[t].refs = 0
                   /\ ~task'[t].retry]_vars

\* The login call drew a 401 and login ended with it.
C15_Witness ==
    /\ task[Login].pc = "done"
    /\ task[Login].result = "401"
    /\ task[Login].thrown
    /\ task[Login].sends = 1
    /\ task[Login].refs = 0

\* C16: a success, a non-401 error or a transport failure of a request starts
\* no refresh and no re-send and leaves the access token as it is; the caller
\* gets the response, or the error thrown.
C16_OtherResponsesPassThrough ==
    [][\A t \in Requests :
          /\ Settles(t)
          /\ task[t].phase = "sent"
          /\ task'[t].result \in {"ok", "err", "net"}
          => /\ accessToken' = accessToken
             /\ task'[t].refs = task[t].refs
             /\ task'[t].sends = task[t].sends
             /\ task'[t].thrown = (task'[t].result # "ok")]_vars

\* A request failed in transport at its first send while a token was held.
C16_Witness ==
    \E t \in Requests :
       /\ task[t].pc = "done"
       /\ task[t].result = "net"
       /\ task[t].sends = 1
       /\ task[t].refs = 0
       /\ accessToken # Null

\* The size limit of each category in megabytes, and the test of the declared
\* MIME type, as the contract states them.
LimitMB == [image |-> 10, pdf |-> 50, video |-> 100]

MimeMatches(mime, category) ==
    CASE category = "image" -> Len(mime) >= 2 /\ mime[1] = "image" /\ mime[2] = "/"
      [] category = "video" -> Len(mime) >= 2 /\ mime[1] = "video" /\ mime[2] = "/"
      [] category = "pdf"   -> mime = <<"application", "/", "pdf">>

Rejected(sel, category) ==
    \/ Len(sel) > 1
    \/ sel[1].size > LimitMB[category] * 1024 * 1024
    \/ ~MimeMatches(sel[1].type, category)

\* C17: validateFiles returns an error exactly when more than one file is
\* supplied, the size exceeds the category limit (a size equal to the limit
\* passes) or the MIME type does not match; the file name has no influence.
C17_ValidateFiles ==
    err # Undefined =>
       /\ (err # None) <=> Rejected(selected, selectedType)
       /\ Len(selected) = 1 =>
             \A n \in Names :
                validateFiles(<<[selected[1] EXCEPT !.name = n]>>,
                              selectedType) = err

\* An image of exactly 10 MB named a.exe was validated and accepted.
C17_Witness ==
    /\ err = None
    /\ selectedType = "image"
    /\ Len(selected) = 1
    /\ selected[1].size = 10 * 1024 * 1024
    /\ selected[1].name = "a.exe"

\* The messages validateFiles can return for a pick.
ValidationMessages ==
    {validateFiles(sel, c) : sel \in Picks, c \in Categories} \ {None}

\* C18: files holds nothing but a file that passed validateFiles for the
\* selected category, every upload call in flight carries such a file, and a
\* selection that fails validation sets the error and issues no call.
C18_OnlyValidFilesSent ==
    [][/\ files' # <<>> =>
             /\ selectedType' # None
             /\ validateFiles(files', selectedType') = None
       /\ \A k \in 1..MaxUploads :
             up'[k].phase \in {"sent", "answered"} =>
                validateFiles(up'[k].files, up'[k].type) = None
       /\ error' # error /\ error' \in ValidationMessages =>
             UNCHANGED <<files, status, uploadId, up, polls, uploadCalls>>]_vars

\* A valid image was selected, then one over the limit: the error is set, the
\* valid file stays selected and nothing was sent.
C18_Witness ==
    /\ selectedType = "image"
    /\ error = "File size exceeds 10MB limit"
    /\ Len(files) = 1
    /\ files[1].size = 10 * 1024 * 1024
    /\ uploadCalls = 0

\* C19: handleUpload sets UPLOADING when it issues the upload call; when the
\* call succeeds the job id is the returned video_id and the status is
\* PROCESSING; when it fails the status is FAILED with a non-empty message
\* and the job id is left as it was (the Job of a mounted Upload: an
\* unmounted one has no state any more).
C19_HandleUpload ==
    [][mounted => \A k \in 1..MaxUploads :
          /\ up[k].phase = "none" /\ up'[k].phase = "sent" =>
                /\ status' = "UPLOADING"
                /\ uploadId' = uploadId
          /\ up[k].phase = "answered" /\ up'[k].phase = "done" =>
                /\ uploadId' = up[k].video_id
                /\ uploadId' # Null
                /\ status' = "PROCESSING"
          /\ up[k].phase = "sent" /\ up'[k].phase = "done" =>
                /\ status' = "FAILED"
                /\ error' \notin {None, ""}
                /\ uploadId' = uploadId]_vars

\* An upload failed in transport.
C19_Witness ==
    /\ up[1].phase = "done"
    /\ status = "FAILED"
    /\ error = "Network Error"
    /\ uploadId = Null

\* C20: after the one upload of a run, once the status is COMPLETED no
\* further status call is issued.
C20_NoStatusCallAfterCompleted ==
    [][uploadCalls = 1 /\ status = "COMPLETED" =>
          BagCardinality(polls') <= BagCardinality(polls)]_vars

\* A step in which the continuation of the status fetch p runs in a mounted
\* Upload (the fetch leaves the wire and nothing else joins it).
TickSettles(p) ==
    /\ mounted
    /\ BagIn(p, polls)
    /\ polls' = polls (-) SetToBag({p})

\* The fetch p is of the current job and the server answered it with data.
Reports(p, data) ==
    /\ p.id = uploadId
    /\ p.phase = "answered"
    /\ p.data \in data

\* C21: the poller of the current job stops on the first tick that fetches
\* completed or failed (the timer is off after it, so no later status call
\* is issued for the job), and it does not stop on a tick that fetches
\* pending or processing or whose fetch throws.
C21_StopsExactlyOnTerminalTick ==
    [][\A p \in PollFetches :
          /\ TickSettles(p) /\ Reports(p, {"completed", "failed"})
                => ~interval'
          /\ TickSettles(p) /\ interval
             /\ (Reports(p, {"pending", "processing"}) \/ p.phase = "sent")
                => interval']_vars

\* C22: a polling timer runs only while a job id exists and the status is
\* neither COMPLETED nor FAILED.
C22_TimerOnlyForLiveJob ==
    interval => uploadId # Null /\ status \notin {"COMPLETED", "FAILED"}

\* C23: a tick whose status fetch fails leaves the status, the error
\* message and the job id as they are and leaves the timer as it is, so a
\* running timer fires again.
C23_FailedFetchChangesNothing ==
    [][\A p \in PollFetches :
          TickSettles(p) /\ p.phase = "sent"
             => UNCHANGED <<status, error, uploadId, interval>>]_vars

\* A fetch of a tick has failed and the job is still polled.
C23_Witness ==
    /\ lastTick = "error"
    /\ status = "PROCESSING"
    /\ error = None
    /\ uploadId # Null
    /\ interval

\* A step by which the user resets the Job: a category is selected, back,
\* or Try Again.
ExplicitReset ==
    /\ mounted
    /\ \/ selectedType' # selectedType
       \/ status = "FAILED" /\ status' = "IDLE"

\* C24: a reset of the Job (category selection, back, Try Again) and the
\* unmount of the Upload leave no polling timer running, so no status call
\* is issued for the previous job id afterwards.
C24_ResetCancelsPolling ==
    [][ExplicitReset \/ (mounted /\ ~mounted') => ~interval']_vars

\* C25: once the status is COMPLETED or FAILED only an explicit reset
\* changes it; a late status response does not move it back to PROCESSING.
C25_TerminalUntilReset ==
    [][mounted /\ status \in {"COMPLETED", "FAILED"} /\ status' # status
          => ExplicitReset]_vars

\* C26: a tick that fetches failed sets FAILED with the message
\* "Processing failed on server." and issues no upload call; an upload call
\* is issued only by a submit of the user (the upload button, enabled while
\* the status is IDLE and files are selected), one call per submit.
C26_ProcessingFailure ==
    [][/\ \A p \in PollFetches :
             TickSettles(p) /\ p.phase = "answered" /\ p.data = "failed"
                => /\ status' = "FAILED"
                   /\ error' = "Processing failed on server."
                   /\ ~interval'
                   /\ UNCHANGED <<uploadCalls, up>>
       /\ uploadCalls' # uploadCalls
             => /\ mounted /\ status = "IDLE" /\ files # <<>>
                /\ status' = "UPLOADING"
                /\ uploadCalls' = uploadCalls + 1
       /\ \A k \in 1..MaxUploads :
             up[k].phase = "none" /\ up'[k].phase # "none"
                => uploadCalls' = k /\ uploadCalls = k - 1]_vars

\* A tick fetched failed: the Job is FAILED with the generic message and the
\* one upload call of the run is over.
C26_Witness ==
    /\ lastTick = "FAILED"
    /\ status = "FAILED"
    /\ error = "Processing failed on server."
    /\ uploadCalls = 1
    /\ up[1].phase = "done"
    /\ ~interval

\* A step in which the server's answer to a login or refresh call of task t
\* is taken: the call succeeded and returned task[t].tok.
MintTaken(t) ==
    /\ \/ task[t].phase = "minted" /\ task[t].pc \in Minting
       \/ task[t].phase = "rminted"
    /\ task[t].tok \in 1..issued
    /\ task'[t].phase \notin {"minted", "rminted"}

\* C27: the token is absent at process start, and whenever a token appears
\* it is the one returned by a login or refresh call that has just
\* succeeded; so a token present was returned by such a call.
C27_TokenOnlyFromLoginOrRefresh ==
    /\ accessToken = Null
    /\ [](accessToken # Null => accessToken \in 1..issued)
    /\ [][accessToken' # Null /\ accessToken' # accessToken
             => \E t \in Tasks : MintTaken(t) /\ accessToken' = task[t].tok]_vars

\* The bootstrap's refresh failed (no token from it) and a later login
\* returned the token now held.
C27_Witness ==
    /\ task[Boot].pc = "done"
    /\ task[Boot].result # "ok"
    /\ task[Login].pc = "me"
    /\ accessToken # Null
    /\ accessToken = issued

\* C28: a request that drew a 401 is re-sent only in the step that takes the
\* successful answer of its own refresh call and stores the new token; the
\* re-send carries that token and is the only one; when its refresh fails
\* the request ends with an error and is not sent again.
C28_ResendAfterRefresh ==
    [][\A t \in Requests :
          /\ (task[t].sends >= 1 /\ task'[t].sends # task[t].sends)
                => /\ task[t].phase = "rminted"
                   /\ task[t].refs = 1
                   /\ accessToken' = task[t].tok
                   /\ task'[t].bearer = task[t].tok
                   /\ task'[t].phase = "sent"
                   /\ task[t].sends = 1 /\ task'[t].sends = 2
          /\ (task[t].phase = "rsent" /\ task'[t].phase \notin {"rsent", "rminted"})
                => /\ task'[t].pc = "done"
                   /\ task'[t].thrown
                   /\ task'[t].sends = 1
          /\ (task[t].pc = "done" /\ task[t].sends >= 1)
                => task'[t] = task[t]]_vars

\* One request is on the wire again with the token its refresh returned,
\* another ended at its failed refresh after a single send.
C28_Witness ==
    \E t, u \in Requests :
        /\ task[t].phase = "sent"
        /\ task[t].sends = 2
        /\ task[t].refs = 1
        /\ task[t].bearer = accessToken
        /\ accessToken # Null
        /\ task[u].pc = "done"
        /\ task[u].sends = 1
        /\ task[u].refs = 1
        /\ task[u].thrown

\* A step in which task t puts a request on the wire (a new call or the
\* re-send after a refresh).
Issues(t) ==
    /\ task'[t].phase = "sent"
    /\ task[t].phase # "sent"

\* C29: a request leaves with the token held at that moment as its bearer,
\* and with no bearer when none is held; so it never leaves with a token
\* that logout or a failed refresh has cleared.
C29_BearerIsTokenHeld ==
    [][\A t \in Tasks : Issues(t) => task'[t].bearer = accessToken']_vars

\* After a failed refresh cleared the token a request left without bearer,
\* while the session's profile call is on the wire with the token of a later
\* login.
C29_Witness ==
    /\ task[Boot].pc = "done"
    /\ task[Boot].result # "ok"
    /\ task[Req(1)].phase = "sent"
    /\ task[Req(1)].bearer = Null
    /\ task[Login].pc = "me"
    /\ task[Login].phase = "sent"
    /\ task[Login].bearer = accessToken
    /\ accessToken # Null

\* C30: the step in which a category is selected leaves a fresh Job,
\* whatever the state before it: status IDLE, no job id, no error, no files
\* selected, the category set, and no polling timer.
C30_SelectCategoryResets ==
    [][selectedType = None /\ selectedType' # None
          => /\ selectedType' \in Categories
             /\ files' = <<>>
             /\ status' = "IDLE"
             /\ error' = None
             /\ uploadId' = Null
             /\ ~interval']_vars

\* A category was selected again after a job had run and failed; a status
\* fetch of that job is still in flight.
C30_Witness ==
    /\ selectedType # None
    /\ files = <<>>
    /\ status = "IDLE"
    /\ error = None
    /\ uploadId = Null
    /\ uploadCalls = 1
    /\ jobs[1] = "failed"
    /\ BagCardinality(polls) = 1

\* A step in which the back arrow takes the user to the category cards.
BackStep == mounted /\ selectedType # None /\ selectedType' = None

\* A step in which Try Again is clicked.
RetryStep ==
    /\ mounted
    /\ status = "FAILED" /\ status' = "IDLE"
    /\ selectedType' = selectedType

\* C31: after back (from IDLE, COMPLETED or FAILED) and after Try Again (from
\* FAILED) the Job is reset: status IDLE, no job id, no error.
C31_BackAndRetryReset ==
    [][BackStep \/ RetryStep
          => status' = "IDLE" /\ uploadId' = Null /\ error' = None]_vars

\* C32: cancelling is idempotent. The teardown and back, when no timer is
\* running (none was started, or it stopped on a terminal tick), change
\* nothing of the Job and issue no call; the clearInterval of a tick that
\* settles after the teardown, or of a FAILED tick that settles when the
\* timer is already off, leaves the timer off and issues no call.
C32_CancelIdempotent ==
    [][/\ (mounted /\ ~mounted' /\ ~interval)
             => UNCHANGED <<selectedType, files, status, uploadId, error,
                            interval, polls, up, uploadCalls, signals>>
       /\ (BackStep /\ ~interval)
             => /\ ~interval'
                /\ UNCHANGED <<polls, up, uploadCalls, signals>>
       /\ \A p \in PollFetches :
             /\ (~mounted /\ BagIn(p, polls) /\ polls' = polls (-) SetToBag({p}))
                   => UNCHANGED <<selectedType, files, status, uploadId,
                                  error, interval, up, uploadCalls>>
             /\ (TickSettles(p) /\ ~interval
                 /\ p.phase = "answered" /\ p.data = "failed")
                   => /\ ~interval'
                      /\ UNCHANGED <<uploadId, up, uploadCalls, signals>>]_vars

\* The poller stopped on a FAILED tick and the Upload was torn down after it.
C32_Witness ==
    /\ ~mounted
    /\ ~interval
    /\ status = "FAILED"
    /\ uploadId # Null
    /\ error = "Processing failed on server."
    /\ polls = EmptyBag

\* C33: polling has no deadline. While a mounted Upload is PROCESSING a job
\* the timer runs, whatever answers and fetch errors came before; and once
\* the backend has the job completed or failed, the status becomes that
\* terminal status (unless the Upload is torn down or another job takes its
\* place).
C33_PollsUntilTerminal ==
    /\ [](mounted /\ status = "PROCESSING" /\ uploadId # Null => interval)
    /\ \A j \in JobIds : \A d \in {"completed", "failed"} :
          (mounted /\ status = "PROCESSING" /\ uploadId = j /\ jobs[j] = d)
             ~> (status = toUpperCase(d) \/ ~mounted \/ uploadId # j)

\* C34: once logout has returned the token stays absent until a login call
\* succeeds: no refresh answer stores a token after it.
C34_NoTokenAfterLogout ==
    [][task[Logout].pc = "done" /\ accessToken = Null /\ accessToken' # Null
          => /\ task[Login].pc = "login"
             /\ task[Login].phase = "minted"
             /\ accessToken' = task[Login].tok]_vars

\* Nothing is in flight: no bootstrap, login, logout or gateway request.
Quiescent == \A t \in Tasks : task[t].pc \in {"init", "done"}

\* C35: with nothing in flight, an Unauthenticated session holds no token.
C35_UnauthenticatedHoldsNoToken ==
    Quiescent /\ isAuthenticated = Unauthenticated => accessToken = Null

\* No session operation is in flight.
SessionQuiescent == \A t \in SessionTasks : task[t].pc \in {"init", "done"}

\* C36: with no session operation in flight, a profile is cached exactly
\* when the session is Authenticated.
C36_ProfileIffAuthenticated ==
    SessionQuiescent => (user # Null <=> isAuthenticated = Authenticated)

\* C37: a Job that is PROCESSING has a job id.
C37_ProcessingHasJobId ==
    status = "PROCESSING" => uploadId # Null

\* A step in which the tick that fetched p calls onUploadComplete(p.id).
Emits(p) ==
    /\ BagIn(p, polls)
    /\ polls' = polls (-) SetToBag({p})
    /\ p.phase = "answered"
    /\ p.data = "completed"
    /\ signals'[p.id]

\* C38: onUploadComplete is called once for a job that reaches COMPLETED,
\* and only for the current job of a mounted Upload: not again for the same
\* job, not for a job id that was reset, not after the teardown.
C38_CompletionSignalledOnce ==
    [][\A p \in PollFetches :
          Emits(p) => mounted /\ uploadId = p.id /\ ~signals[p.id]]_vars

\* C39: handleBack while UPLOADING or PROCESSING changes nothing: category,
\* files, status, error and job id stay, the timer keeps running, fetches in
\* flight and upload calls are untouched.
C39_BackWhileBusyChangesNothing ==
    [][backWhileBusy'
          => /\ status \in {"UPLOADING", "PROCESSING"}
             /\ UNCHANGED <<selectedType, files, status, error, uploadId,
                            interval, polls, up, uploadCalls, mounted>>]_vars

\* handleBack has just returned early while a job is polled.
C39_Witness ==
    /\ backWhileBusy
    /\ status = "PROCESSING"
    /\ uploadId # Null
    /\ interval
    /\ selectedType # None

\* C40: inside the gateway the token is cleared only when a refresh call
\* fails; when the re-sent request fails (second 401, other error, transport
\* failure) the token stays as it is.
C40_OnlyFailedRefreshClears ==
    [][/\ \A t \in Requests :
             (Settles(t) /\ task[t].phase = "sent" /\ task[t].retry
              /\ task'[t].result # "ok")
                => accessToken' = accessToken
       /\ (accessToken # Null /\ accessToken' = Null)
             => \E t \in Requests : Settles(t) /\ task[t].phase = "rsent"]_vars

\* A re-sent request drew a second 401 and the token of its refresh is still
\* held.
C40_Witness ==
    \E t \in Requests :
        /\ task[t].pc = "done"
        /\ task[t].sends = 2
        /\ task[t].refs = 1
        /\ task[t].result = "401"
        /\ accessToken # Null
        /\ \A u \in Requests \ {t} : task[u].pc = "init"

=============================================================================
